---- MODULE Spec2Model ----
(***************************************************************************)
(* State-machine model of the batch dispatch and retry engine:             *)
(*   - BaseChain._create_batched_items   (llm_chains/base_chain.py)        *)
(*   - BaseCustomModelLLM._process_prompt / _generate                      *)
(*                                      (llm_wrappers/base_custom_model_llm.py) *)
(*   - BaseChain.process_batch / process_batched_items                     *)
(*   - CustomOutputParser.parse_result  (regressionanalyser/parser)        *)
(*                                                                         *)
(* Five specifications share the module:                                   *)
(*   SpecBatcher  one run of _create_batched_items, one loop iteration per *)
(*                step;                                                    *)
(*   SpecClient   one run of _generate over a list of prompts, one HTTP    *)
(*                attempt / sleep per step;                                *)
(*   Spec         one run of the dispatcher (process_batch or              *)
(*                process_batched_items) with its pool of worker threads;  *)
(*   SpecParser   one call of parse_result on one generation text;         *)
(*   SpecChain    one run of FailureChain.run, followed through what it    *)
(*                does with the failures up to the messages it prepares.   *)
(*                                                                         *)
(* An item has no identity beyond its position: items are modelled by      *)
(* their index in the input list, and items[i] is len(str(item)).          *)
(***************************************************************************)
EXTENDS Integers, Sequences, FiniteSets, TLC

\* ------------------------------------------------------------------ bounds
MaxItems == 4        \* longest input list given to the batcher
MaxSize == 3         \* largest serialized size of one item
MaxCharsCap == 3     \* largest max_chars tried
MaxPerRequestCap == 2 \* largest max_items_per_request tried
MaxRetriesCap == 3   \* largest max_retries tried
MaxPrompts == 2      \* longest prompt list given to _generate
MaxRunItems == 3     \* longest input list given to a dispatcher run
MaxBatchSize == 2    \* largest batch_size tried
MaxElems == 5        \* longest array in a response given to parse_result
MaxFailures == 3     \* longest list of failures given to FailureChain.run
RunRetries == 2      \* max_retries of the client in a dispatcher run
RunMaxChars == 2     \* max_chars of a dispatcher run, in units of item size

\* ------------------------------------------------------- program constants
BackoffBase == 30    \* wait_time = 30 ** attempt
RetryDelay == 1      \* time.sleep(1) after a RequestException
RateLimitStatus == 429
delay_between_batches == 60   \* field delay_between_batches, in seconds
GetattrDefault == 0  \* getattr(self, "delay_between_batches_s", 0)

VARIABLES
    \* ---- _create_batched_items (also the configuration of a dispatcher run)
    items,                  \* the input list: items[i] = len(str(item i))
    max_chars,              \* parameter max_chars
    max_items_per_request,  \* field max_items_per_request
    idx,                    \* number of loop iterations done (enumerate index)
    batches,                \* local batches (list of lists of item indices)
    current_batch,          \* local current_batch
    current_char_count,     \* local current_char_count
    dropped_items,          \* local dropped_items
    bpc,                    \* position in _create_batched_items
    \* ---- BaseCustomModelLLM._generate / _process_prompt
    max_retries,            \* field max_retries
    prompts,                \* argument prompts of _generate (prompt ids)
    pidx,                   \* number of prompts _generate has finished
    call,                   \* the running _process_prompt call
    calls,                  \* the finished calls, in prompt order (history)
    generations,            \* local generations of _generate
    gpc,                    \* position in _generate
    \* ---- FailureChain.run: BaseChain.process_batch / process_batched_items
    mode,                   \* field mode: "ui" (per item) or "api" (per batch)
    batch_size,             \* field batch_size
    group_idx,              \* loop variable i / group_idx (0-based offset)
    futures,                \* the futures executor.map submitted for the group
    finish_order,           \* positions of the group's futures, as they ended
    batch_results,          \* what list(executor.map(...)) has taken so far
    results,                \* local all_results / results
    dpc,                    \* position of the dispatching thread
    dexc,                   \* the exception the run raised
    dsleeps,                \* the time.sleep calls of the dispatching thread
    handed,                 \* how often each unit was handed to a worker call
    \* ---- CustomOutputParser.parse_result
    result,                 \* argument result: a list of generation texts
    parsed,                 \* what parse_result returned or raised
    ppc,                    \* position in parse_result
    \* ---- FailureChain.run: the failures on their way to the prompts
    failures,               \* argument failures: the list of the caller
    chain_items,            \* the list handed on to the dispatching method
    sent,                   \* the messages prepared for the remote calls
    cpc                     \* position in FailureChain.run

batcherVars == <<items, max_chars, max_items_per_request, idx, batches,
                 current_batch, current_char_count, dropped_items, bpc>>

clientVars == <<max_retries, prompts, pidx, call, calls, generations, gpc>>

dispVars == <<mode, batch_size, group_idx, futures, finish_order,
              batch_results, results, dpc, dexc, dsleeps, handed>>

parserVars == <<result, parsed, ppc>>

chainVars == <<failures, chain_items, sent, cpc>>

vars == <<batcherVars, clientVars, dispVars, parserVars, chainVars>>

\* ------------------------------------------------------------ helpers
RECURSIVE SumLens(_)
SumLens(ss) == IF ss = <<>> THEN 0 ELSE Len(Head(ss)) + SumLens(Tail(ss))

RECURSIVE Flatten(_)
Flatten(ss) == IF ss = <<>> THEN <<>> ELSE Head(ss) \o Flatten(Tail(ss))

Range(s) == {s[i] : i \in DOMAIN s}

Occurrences(s, x) == Cardinality({i \in DOMAIN s : s[i] = x})

SeqsUpTo(S, n) == UNION {[1..k -> S] : k \in 0..n}

\* sum of the serialized sizes of the items (indices) of one batch
RECURSIVE BatchChars(_, _)
BatchChars(b, its) == IF b = <<>> THEN 0 ELSE its[Head(b)] + BatchChars(Tail(b), its)

\* ------------------------------------------------- _create_batched_items
\* line 108: the item alone exceeds max_chars
IsOversized(item_chars, mc) == item_chars > mc

\* lines 114-116: adding the item would exceed a limit of the non-empty batch
ClosesBatchEager(st, item_chars, mc, mi) == st.current_batch # <<>>
ClosesBatchOffByOne(st, item_chars, mc, mi) ==
    /\ st.current_batch # <<>>
    /\ \/ st.current_char_count + item_chars > mc
       \/ Len(st.current_batch) > mi
ClosesBatch(st, item_chars, mc, mi) ==
    /\ st.current_batch # <<>>
    /\ \/ st.current_char_count + item_chars > mc
       \/ Len(st.current_batch) >= mi

\* lines 103-122: one iteration of the loop, for the item at index i
BatchStepNoContinue(st, i, its, mc, mi) ==
    LET item_chars == its[i]
        s1 == IF IsOversized(item_chars, mc)
              THEN [st EXCEPT !.dropped_items = Append(@, i)]
              ELSE st
        s2 == IF ClosesBatch(s1, item_chars, mc, mi)
              THEN [s1 EXCEPT !.batches = Append(@, s1.current_batch),
                              !.current_batch = <<>>,
                              !.current_char_count = 0]
              ELSE s1
    IN [s2 EXCEPT !.current_batch = Append(@, i),
                  !.current_char_count = @ + item_chars]
BatchStep(st, i, its, mc, mi) ==
    LET item_chars == its[i] IN
    IF IsOversized(item_chars, mc)
    THEN [st EXCEPT !.dropped_items = Append(@, i)]
    ELSE LET s2 == IF ClosesBatch(st, item_chars, mc, mi)
                   THEN [st EXCEPT !.batches = Append(@, st.current_batch),
                                   !.current_batch = <<>>,
                                   !.current_char_count = 0]
                   ELSE st
         IN [s2 EXCEPT !.current_batch = Append(@, i),
                       !.current_char_count = @ + item_chars]

\* lines 125-126: the remaining items become the final batch
FinalFlushForgotten(st) == st
FinalFlushInFront(st) ==
    IF st.current_batch # <<>>
    THEN [st EXCEPT !.batches = <<st.current_batch>> \o @]
    ELSE st
FinalFlush(st) ==
    IF st.current_batch # <<>>
    THEN [st EXCEPT !.batches = Append(@, st.current_batch)]
    ELSE st

\* lines 98-101: the locals before the loop
BatcherStart ==
    [batches |-> <<>>, current_batch |-> <<>>, current_char_count |-> 0,
     dropped_items |-> <<>>]

BatcherState ==
    [batches |-> batches, current_batch |-> current_batch,
     current_char_count |-> current_char_count, dropped_items |-> dropped_items]

SetBatcherState(st) ==
    /\ batches' = st.batches
    /\ current_batch' = st.current_batch
    /\ current_char_count' = st.current_char_count
    /\ dropped_items' = st.dropped_items

\* the whole function, as the fold of its loop body (what a caller gets)
RECURSIVE BatchLoop(_, _, _, _, _)
BatchLoop(st, i, its, mc, mi) ==
    IF i > Len(its) THEN FinalFlush(st)
    ELSE BatchLoop(BatchStep(st, i, its, mc, mi), i + 1, its, mc, mi)

CreateBatchedItems(its, mc, mi) == BatchLoop(BatcherStart, 1, its, mc, mi)

BatcherInit ==
    /\ items \in SeqsUpTo(1..MaxSize, MaxItems)
    /\ max_chars \in 1..MaxCharsCap
    /\ max_items_per_request \in 1..MaxPerRequestCap
    /\ idx = 0
    /\ batches = <<>>
    /\ current_batch = <<>>
    /\ current_char_count = 0
    /\ dropped_items = <<>>
    /\ bpc = "loop"

\* one iteration of `for idx, item in enumerate(items)`
BatcherIterate ==
    /\ bpc = "loop"
    /\ idx < Len(items)
    /\ idx' = idx + 1
    /\ SetBatcherState(BatchStep(BatcherState, idx + 1, items, max_chars,
                                 max_items_per_request))
    /\ UNCHANGED <<items, max_chars, max_items_per_request, bpc>>
    /\ UNCHANGED <<clientVars, dispVars, parserVars, chainVars>>

\* loop exhausted: lines 124-136, final batch and return
BatcherReturn ==
    /\ bpc = "loop"
    /\ idx = Len(items)
    /\ SetBatcherState(FinalFlush(BatcherState))
    /\ bpc' = "returned"
    /\ UNCHANGED <<items, max_chars, max_items_per_request, idx>>
    /\ UNCHANGED <<clientVars, dispVars, parserVars, chainVars>>

BatcherNext == BatcherIterate \/ BatcherReturn

\* --------------------------------------------------------- _process_prompt
RECURSIVE Pow(_, _)
Pow(b, e) == IF e = 0 THEN 1 ELSE b * Pow(b, e - 1)

\* what one requests.post + raise_for_status + response.json() can end in
HttpOutcome(status) == [kind |-> "http", status |-> status]
TransportError == [kind |-> "transport", status |-> 0]   \* RequestException
UnexpectedError == [kind |-> "unexpected", status |-> 0] \* any other Exception
Outcomes ==
    {HttpOutcome(200), HttpOutcome(RateLimitStatus), HttpOutcome(500),
     TransportError, UnexpectedError}

\* what the text of a response can hold (see parse_result)
DocKinds ==
    {"array_valid", "array_one_invalid", "object_valid", "object_invalid",
     "malformed"}

\* the two the client is exercised with: it does not look into the text
ClientDocKinds == {"array_valid", "malformed"}

OkText(p, kind) == [for |-> p, doc |-> kind, err |-> "none"]
\* Generation(text=f"[ERROR: {str(e)}]")
ErrorText(p, e) == [for |-> p, doc |-> "error_marker", err |-> e]
NoText == [for |-> 0, doc |-> "none", err |-> "none"]

\* a _process_prompt call before its first attempt.  outcomes is the history
\* of what the call's attempts ended in, kept for the calls of SpecClient
NewCall(p) ==
    [prompt |-> p, pc |-> "request", attempt |-> 0, requests |-> 0,
     sleeps |-> <<>>, outcomes |-> <<>>, text |-> NoText, exc |-> "none"]

CallEnded(c) == c.pc \in {"returned", "raised"}

\* line 90: a rate-limit response is retried while attempts remain
RetriesRateLimitNever(status, attempt, mr) == FALSE
RetriesRateLimitAnyStatus(status, attempt, mr) == attempt < mr - 1
RetriesRateLimit(status, attempt, mr) ==
    status = RateLimitStatus /\ attempt < mr - 1

\* line 102: a transport error is retried while attempts remain
RetriesTransportAlways(attempt, mr) == TRUE
RetriesTransport(attempt, mr) == attempt < mr - 1

\* line 92: wait_time = 30 ** attempt
WaitTimeLinear(attempt) == BackoffBase * attempt
WaitTime(attempt) == Pow(BackoffBase, attempt)

\* lines 74-83: the loop enters attempt number c.attempt and posts the request
CallPost(c) == [c EXCEPT !.pc = "inflight", !.requests = @ + 1]

\* line 112: the loop is over without a return or a raise
CallExhausted(c, mr) ==
    [c EXCEPT !.pc = "raised", !.exc = "ConnectionError(exhausted)"]

\* lines 84-109: the outcome of the attempt in flight
CallRespond(c, out, kind, mr) ==
    CASE out.kind = "http" /\ out.status = 200 ->
            [c EXCEPT !.pc = "returned", !.text = OkText(c.prompt, kind)]
      [] out.kind = "http" /\ out.status # 200 ->
            IF RetriesRateLimit(out.status, c.attempt, mr)
            THEN [c EXCEPT !.pc = "sleep",
                            !.sleeps = Append(@, WaitTime(c.attempt))]
            ELSE [c EXCEPT !.pc = "raised",
                            !.exc = IF out.status = RateLimitStatus
                                    THEN "HTTPError(429)" ELSE "HTTPError"]
      [] out.kind = "transport" ->
            IF RetriesTransport(c.attempt, mr)
            THEN [c EXCEPT !.pc = "sleep", !.sleeps = Append(@, RetryDelay)]
            ELSE [c EXCEPT !.pc = "raised", !.exc = "RequestException"]
      [] OTHER ->
            [c EXCEPT !.pc = "raised", !.exc = "Exception"]

\* the sleep is over: next iteration of the loop
CallWakeSameAttempt(c) == [c EXCEPT !.pc = "request"]
CallWake(c) == [c EXCEPT !.pc = "request", !.attempt = @ + 1]

\* ----------------------------------------------------------------- _generate
\* line 62: `except Exception` catches whatever _process_prompt raises
GenerateCatchesNothing(e) == FALSE
GenerateCatchesHTTPOnly(e) == e \in {"HTTPError", "HTTPError(429)"}
GenerateCatches(e) == TRUE

\* lines 58-66: the generation one finished call contributes
GenerationOf(c) ==
    IF c.pc = "returned" THEN c.text ELSE ErrorText(c.prompt, c.exc)

ClientInit ==
    /\ max_retries \in 0..MaxRetriesCap
    /\ prompts \in {[i \in 1..n |-> i] : n \in 0..MaxPrompts}
    /\ pidx = 0
    /\ call = NewCall(1)
    /\ calls = <<>>
    /\ generations = <<>>
    /\ gpc = "loop"

\* the client's variables while another component is modelled
ClientIdle ==
    /\ max_retries = 0
    /\ prompts = <<>>
    /\ pidx = 0
    /\ call = NewCall(1)
    /\ calls = <<>>
    /\ generations = <<>>
    /\ gpc = "idle"

InCall == gpc = "loop" /\ pidx < Len(prompts)

ClientPost ==
    /\ InCall
    /\ call.pc = "request"
    /\ call.attempt < max_retries
    /\ call' = CallPost(call)
    /\ UNCHANGED <<max_retries, prompts, pidx, calls, generations, gpc>>
    /\ UNCHANGED <<batcherVars, dispVars, parserVars, chainVars>>

ClientExhausted ==
    /\ InCall
    /\ call.pc = "request"
    /\ call.attempt >= max_retries
    /\ call' = CallExhausted(call, max_retries)
    /\ UNCHANGED <<max_retries, prompts, pidx, calls, generations, gpc>>
    /\ UNCHANGED <<batcherVars, dispVars, parserVars, chainVars>>

ClientRespond ==
    /\ InCall
    /\ call.pc = "inflight"
    /\ \E out \in Outcomes :
         \E kind \in (IF out = HttpOutcome(200) THEN ClientDocKinds
                                                   ELSE {"none"}) :
            call' = [CallRespond(call, out, kind, max_retries)
                        EXCEPT !.outcomes = Append(@, out)]
    /\ UNCHANGED <<max_retries, prompts, pidx, calls, generations, gpc>>
    /\ UNCHANGED <<batcherVars, dispVars, parserVars, chainVars>>

ClientWake ==
    /\ InCall
    /\ call.pc = "sleep"
    /\ call' = CallWake(call)
    /\ UNCHANGED <<max_retries, prompts, pidx, calls, generations, gpc>>
    /\ UNCHANGED <<batcherVars, dispVars, parserVars, chainVars>>

\* lines 60-66: the call is over; its text or its error marker is appended,
\* and the loop goes to the next prompt
ClientAppend ==
    /\ InCall
    /\ CallEnded(call)
    /\ calls' = Append(calls, call)
    /\ IF call.pc = "returned" \/ GenerateCatches(call.exc)
       THEN /\ generations' = Append(generations, GenerationOf(call))
            /\ pidx' = pidx + 1
            /\ call' = NewCall(pidx + 2)
            /\ gpc' = gpc
       ELSE /\ gpc' = "escaped"
            /\ UNCHANGED <<generations, pidx, call>>
    /\ UNCHANGED <<max_retries, prompts>>
    /\ UNCHANGED <<batcherVars, dispVars, parserVars, chainVars>>

\* line 68
ClientReturn ==
    /\ gpc = "loop"
    /\ pidx = Len(prompts)
    /\ gpc' = "returned"
    /\ UNCHANGED <<max_retries, prompts, pidx, call, calls, generations>>
    /\ UNCHANGED <<batcherVars, dispVars, parserVars, chainVars>>

ClientNext ==
    \/ ClientPost
    \/ ClientExhausted
    \/ ClientRespond
    \/ ClientWake
    \/ ClientAppend
    \/ ClientReturn

BatcherIdle ==
    /\ items = <<>>
    /\ max_chars = 0
    /\ max_items_per_request = 0
    /\ idx = 0
    /\ batches = <<>>
    /\ current_batch = <<>>
    /\ current_char_count = 0
    /\ dropped_items = <<>>
    /\ bpc = "idle"

DispIdle ==
    /\ mode = "none"
    /\ batch_size = 0
    /\ group_idx = 0
    /\ futures = <<>>
    /\ finish_order = <<>>
    /\ batch_results = <<>>
    /\ results = <<>>
    /\ dpc = "idle"
    /\ dexc = "none"
    /\ dsleeps = <<>>
    /\ handed = <<>>

\* no result or exception of parse_result
NoDoc == [kind |-> "none", elems |-> <<>>]
NoMessage == [open |-> "none", doc |-> NoDoc, close |-> FALSE]
NoParsed == [exc |-> "none", value |-> <<>>, msg |-> NoMessage]

\* the parser's variables while another component is modelled
ParserIdle ==
    /\ result = <<>>
    /\ parsed = NoParsed
    /\ ppc = "idle"

\* the variables of FailureChain.run while another component is modelled
ChainIdle ==
    /\ failures = <<>>
    /\ chain_items = <<>>
    /\ sent = <<>>
    /\ cpc = "idle"

InitClient == ClientInit /\ BatcherIdle /\ DispIdle /\ ParserIdle /\ ChainIdle

SpecClient == InitClient /\ [][ClientNext]_vars


InitBatcher ==
    BatcherInit /\ ClientIdle /\ DispIdle /\ ParserIdle /\ ChainIdle

SpecBatcher == InitBatcher /\ [][BatcherNext]_vars

\* ---------------------------------------------------------- parse_result
\* A generation text is modelled by what parse_result looks at: an opening
\* fence (a json fence, a bare fence of three backquotes, or none), the
\* document between the fences, and whether a closing fence ends the text.  A document is an
\* array of elements, a single object (elems has one entry), or text that
\* json.loads rejects; an element carries the item it is about and whether
\* it fits the FailureAnalysisResult schema.
Opens == {"none", "json_fence", "bare_fence"}

ArrayDoc(elems) == [kind |-> "array", elems |-> elems]
ObjectDoc(elem) == [kind |-> "object", elems |-> <<elem>>]
MalformedDoc == [kind |-> "malformed", elems |-> <<>>]

Docs ==
    UNION {{ArrayDoc([j \in 1..n |-> [item |-> j, ok |-> oks[j]]]) :
               oks \in [1..n -> BOOLEAN]} : n \in 0..MaxElems}
    \cup {ObjectDoc([item |-> 1, ok |-> b]) : b \in BOOLEAN}
    \cup {MalformedDoc}

Texts == {[open |-> o, doc |-> d, close |-> c] :
             o \in Opens, d \in Docs, c \in BOOLEAN}

\* line 43: re.sub(<json fence>\s* | <bare fence>\s*$, "", text).strip()
\* removes every json fence and a bare fence that ends the text; a bare
\* fence that opens the text is followed by the document, not by the end
\* of the text, and stays
StripFences(t) ==
    [t EXCEPT !.open = IF @ = "json_fence" THEN "none" ELSE @, !.close = FALSE]

\* line 47: json.loads accepts the cleaned text when nothing but a
\* well-formed document is left of it
JsonLoads(cleaned) ==
    IF cleaned.open = "none" /\ ~cleaned.close /\ cleaned.doc.kind # "malformed"
    THEN [ok |-> TRUE, data |-> cleaned.doc]
    ELSE [ok |-> FALSE, data |-> NoDoc]

\* model_validate on one decoded element: the record, or the ValidationError
\* of pydantic
ModelValidate(elem) ==
    IF elem.ok THEN [exc |-> "none", value |-> [item |-> elem.item]]
    ELSE [exc |-> "ValidationError", value |-> [item |-> elem.item]]

\* line 56: the except clause names json.JSONDecodeError and the
\* ValidationError of line 1, which is the one of jsonschema: the
\* ValidationError of pydantic is not converted by it
ExceptConverts(e) == e = "JSONDecodeError"

\* lines 34-60, on the list result of generation texts
ParseResult(res) ==
    IF res = <<>>
    THEN [exc |-> "ValueError", value |-> <<>>, msg |-> NoMessage]
    ELSE
      LET cleaned == StripFences(res[1])
          loaded == JsonLoads(cleaned)
          elems == loaded.data.elems
          raised ==
            CASE ~loaded.ok -> "JSONDecodeError"
              [] \E j \in DOMAIN elems : ModelValidate(elems[j]).exc # "none"
                   -> "ValidationError"
              \* line 55: the name alidated_item is not defined
              [] loaded.data.kind = "object" -> "NameError"
              [] OTHER -> "none"
      IN
      CASE raised = "none" ->
              [exc |-> "none",
               value |-> [j \in DOMAIN elems |-> ModelValidate(elems[j]).value],
               msg |-> NoMessage]
        [] raised # "none" /\ ExceptConverts(raised) ->
              [exc |-> "ValueError", value |-> <<>>, msg |-> cleaned]
        [] OTHER ->
              [exc |-> raised, value |-> <<>>, msg |-> NoMessage]

\* the text of a response of the given kind, as the parser sees it: one
\* element per item of the request; the "[ERROR: ...]" marker
\* of a remote failure is text that json.loads rejects
GenerationText(text) ==
    [open |-> "none", close |-> FALSE,
     doc |->
       CASE text.doc = "array_valid" ->
               ArrayDoc([j \in 1..Len(text.for) |->
                            [item |-> text.for[j], ok |-> TRUE]])
         [] text.doc = "array_one_invalid" ->
               ArrayDoc([j \in 1..Len(text.for) |->
                            [item |-> text.for[j], ok |-> j # 1]])
         [] text.doc = "object_valid" ->
               ObjectDoc([item |-> text.for[1], ok |-> TRUE])
         [] text.doc = "object_invalid" ->
               ObjectDoc([item |-> text.for[1], ok |-> FALSE])
         [] OTHER -> MalformedDoc]

ParserInit ==
    /\ result \in {<<>>} \cup {<<t>> : t \in Texts}
    /\ parsed = NoParsed
    /\ ppc = "start"

\* one call of parse_result
ParseResultCall ==
    /\ ppc = "start"
    /\ parsed' = ParseResult(result)
    /\ ppc' = IF ParseResult(result).exc = "none" THEN "returned" ELSE "raised"
    /\ UNCHANGED <<result, batcherVars, clientVars, dispVars, chainVars>>

InitParser == ParserInit /\ BatcherIdle /\ ClientIdle /\ DispIdle /\ ChainIdle

SpecParser == InitParser /\ [][ParseResultCall]_vars

\* ------------------------------------------------ process_single and pool
\* llm.invoke(prompt): _generate on the one prompt; what leaves it
\* is a text, or (were an exception not caught) that exception
LlmInvoke(c) ==
    IF c.pc = "returned" \/ GenerateCatches(c.exc)
    THEN [exc |-> "none", text |-> GenerationOf(c)]
    ELSE [exc |-> c.exc, text |-> NoText]

\* chain.invoke of process_single / _process_single_token_batch once the
\* client's call has ended: the parser runs on the text
ChainResult(c) ==
    LET g == LlmInvoke(c) IN
    IF g.exc # "none" THEN [exc |-> g.exc, value |-> <<>>]
    ELSE ParseResult(<<GenerationText(g.text)>>)

PendingFuture(unit) ==
    [state |-> "pending", unit |-> unit, call |-> NewCall(unit),
     value |-> <<>>, exc |-> "none"]

\* the future once its worker has returned or raised
EndedFuture(f, r) ==
    [f EXCEPT !.state = IF r.exc = "none" THEN "done" ELSE "failed",
              !.call = NewCall(f.unit),
              !.value = r.value,
              !.exc = r.exc]

\* the first attempt, or the attempt after a sleep
StartAttempt(c, mr) ==
    IF c.attempt < mr THEN CallPost(c) ELSE CallExhausted(c, mr)

Min(a, b) == IF a < b THEN a ELSE b

\* what the run dispatches: the items one by one (process_batch), or the
\* batches of _create_batched_items (process_batched_items)
Units ==
    IF mode = "ui" THEN [i \in 1..Len(items) |-> <<i>>] ELSE batches

\* batch[i:i + batch_size]  /  batches[group_idx:group_idx + self.batch_size]
GroupOfUnbounded(us, start, bs) == SubSeq(us, start + 1, Len(us))
GroupOf(us, start, bs) == SubSeq(us, start + 1, Min(start + bs, Len(us)))

\* ThreadPoolExecutor(max_workers=...): batch_size, or len(group_batches)
MaxWorkersOne(m, bs, n) == 1
MaxWorkers(m, bs, n) == IF m = "ui" THEN bs ELSE n

\* num_batches / num_groups and batch_num / group_num
NumGroups(n, bs) == (n + bs - 1) \div bs
GroupNum(start, bs) == (start \div bs) + 1

Running == {p \in DOMAIN futures : futures[p].state = "running"}

\* executor.map yields the futures' results in submission order: the k-th
\* result taken is the k-th future's, whichever ended first
NextToCollectAsCompleted(k, order) == IF k <= Len(order) THEN order[k] ELSE k
NextToCollect(k, order) == k

\* lines 79-83: a list result is spliced in, anything else appended
\* (process_batch, line 50, extends by the results themselves)
ExtendResultsInFront(m, rs, brs) ==
    IF m = "ui" THEN brs \o rs ELSE Flatten(brs) \o rs
ExtendResults(m, rs, brs) == IF m = "ui" THEN rs \o brs ELSE rs \o Flatten(brs)

DispInit ==
    /\ mode \in {"ui", "api"}
    /\ batch_size \in 1..MaxBatchSize
    /\ items \in SeqsUpTo({1, MaxSize}, MaxRunItems)
    /\ max_chars = RunMaxChars
    /\ max_items_per_request \in
          (IF mode = "ui" THEN {MaxPerRequestCap} ELSE 1..MaxPerRequestCap)
    /\ max_retries = RunRetries
    /\ idx = 0
    /\ batches = <<>>
    /\ current_batch = <<>>
    /\ current_char_count = 0
    /\ dropped_items = <<>>
    /\ bpc = "idle"
    /\ prompts = <<>>
    /\ pidx = 0
    /\ call = NewCall(1)
    /\ calls = <<>>
    /\ generations = <<>>
    /\ gpc = "idle"
    /\ group_idx = 0
    /\ futures = <<>>
    /\ finish_order = <<>>
    /\ batch_results = <<>>
    /\ results = <<>>
    /\ dpc = "start"
    /\ dexc = "none"
    /\ dsleeps = <<>>
    /\ handed = <<>>
    /\ ParserIdle
    /\ ChainIdle

dispConfig == <<mode, batch_size, items, max_chars, max_items_per_request,
                max_retries>>

\* FailureChain.run, lines 32-35: process_batch on the items, or
\* process_batched_items, which first calls _create_batched_items (line 66)
RunStart ==
    /\ dpc = "start"
    /\ dpc' = "loop"
    /\ IF mode = "ui"
       THEN UNCHANGED <<idx, batches, current_batch, current_char_count,
                        dropped_items, bpc>>
       ELSE /\ SetBatcherState(CreateBatchedItems(items, max_chars,
                                                  max_items_per_request))
            /\ idx' = Len(items)
            /\ bpc' = "returned"
    /\ UNCHANGED <<dispConfig, clientVars, group_idx, futures, finish_order,
                   batch_results, results, dexc, dsleeps, handed,
                   parserVars, chainVars>>

\* lines 43-49 / 72-78: the next group is sliced and executor.map submits
\* one future per element of it
SubmitGroup ==
    /\ dpc = "loop"
    /\ group_idx < Len(Units)
    /\ futures' = [p \in DOMAIN GroupOf(Units, group_idx, batch_size) |->
                      PendingFuture(GroupOf(Units, group_idx, batch_size)[p])]
    /\ finish_order' = <<>>
    /\ batch_results' = <<>>
    /\ dpc' = "collect"
    /\ UNCHANGED <<dispConfig, clientVars, group_idx, results, dexc, dsleeps,
                   handed, parserVars, chainVars>>
    /\ UNCHANGED <<idx, batches, current_batch, current_char_count,
                   dropped_items, bpc>>

dispFrame == <<dispConfig, idx, batches, current_batch, current_char_count,
               dropped_items, bpc, prompts, pidx, call, calls, generations,
               gpc, parserVars, chainVars>>

\* executor.map calls the worker function once on the element a future was
\* submitted for: the count of the calls made on unit u goes up by one
HandTo(h, u) ==
    IF u \in DOMAIN h THEN [h EXCEPT ![u] = @ + 1] ELSE h @@ (u :> 1)

\* a pool thread takes a pending future: _prepare_llm_input (an overridable
\* hook, which may raise) builds the prompt and the first request is posted
WorkerStart(p) ==
    /\ dpc \in {"collect", "unwind"}
    /\ futures[p].state = "pending"
    /\ Cardinality(Running) < MaxWorkers(mode, batch_size, Len(futures))
    /\ \E prepared \in BOOLEAN :
         IF prepared
         THEN /\ futures' = [futures EXCEPT ![p].state = "running",
                               ![p].call = StartAttempt(@, max_retries)]
              /\ UNCHANGED finish_order
         ELSE /\ futures' = [futures EXCEPT ![p] =
                     EndedFuture(@, [exc |-> "PrepareError", value |-> <<>>])]
              /\ finish_order' = Append(finish_order, p)
    /\ handed' = HandTo(handed, futures[p].unit)
    /\ UNCHANGED <<dispFrame, group_idx, batch_results, results, dpc, dexc,
                   dsleeps>>

\* the worker's attempt in flight ends; when that ends the call, the chain
\* goes on to the parser and the future is set
WorkerRespond(p) ==
    /\ futures[p].state = "running"
    /\ futures[p].call.pc = "inflight"
    /\ \E out \in Outcomes :
        \E kind \in (IF out = HttpOutcome(200) THEN DocKinds ELSE {"none"}) :
          LET c == CallRespond(futures[p].call, out, kind, max_retries) IN
          IF CallEnded(c)
          THEN /\ futures' = [futures EXCEPT ![p] =
                                 EndedFuture(@, ChainResult(c))]
               /\ finish_order' = Append(finish_order, p)
          ELSE /\ futures' = [futures EXCEPT ![p].call = c]
               /\ UNCHANGED finish_order
    /\ UNCHANGED <<dispFrame, group_idx, batch_results, results, dpc, dexc,
                   dsleeps, handed>>

\* the worker's sleep is over: the loop of _process_prompt goes on
WorkerWake(p) ==
    /\ futures[p].state = "running"
    /\ futures[p].call.pc = "sleep"
    /\ LET c == StartAttempt(CallWake(futures[p].call), max_retries) IN
       IF CallEnded(c)
       THEN /\ futures' = [futures EXCEPT ![p] =
                              EndedFuture(@, ChainResult(c))]
            /\ finish_order' = Append(finish_order, p)
       ELSE /\ futures' = [futures EXCEPT ![p].call = c]
            /\ UNCHANGED finish_order
    /\ UNCHANGED <<dispFrame, group_idx, batch_results, results, dpc, dexc,
                   dsleeps, handed>>

\* list(executor.map(...)) takes the next result: the future's value, or its
\* exception, which leaves the iterator (whose finally cancels the futures
\* still pending) and the with block
CollectNext ==
    /\ dpc = "collect"
    /\ Len(batch_results) < Len(futures)
    /\ LET p == NextToCollect(Len(batch_results) + 1, finish_order) IN
       /\ futures[p].state \in {"done", "failed"}
       /\ IF futures[p].state = "done"
          THEN /\ batch_results' = Append(batch_results, futures[p].value)
               /\ UNCHANGED <<futures, dpc, dexc>>
          ELSE /\ futures' = [q \in DOMAIN futures |->
                                 IF futures[q].state = "pending"
                                 THEN [futures[q] EXCEPT !.state = "cancelled"]
                                 ELSE futures[q]]
               /\ dpc' = "unwind"
               /\ dexc' = futures[p].exc
               /\ UNCHANGED batch_results
    /\ UNCHANGED <<dispFrame, group_idx, finish_order, results, dsleeps,
                   handed>>

\* the with block ends on an exception: shutdown(wait=True) has joined the
\* running workers, and the exception leaves the run
RunRaise ==
    /\ dpc = "unwind"
    /\ Running = {}
    /\ dpc' = "raised"
    /\ UNCHANGED <<dispFrame, group_idx, futures, finish_order, batch_results,
                   results, dexc, dsleeps, handed>>

\* lines 49 / 78: list(executor.map(...)) is over when it has taken the
\* result of every future of the group; the with block then joins the pool
AllCollectedAfterFirst(brs, fs) == Len(brs) >= 1
AllCollected(brs, fs) == Len(brs) = Len(fs)

\* line 85: the delay process_batched_items tests before it sleeps.  The
\* class has no field delay_between_batches_s (its field is
\* delay_between_batches), so getattr yields its default
ThrottleDelay == GetattrDefault

\* every result of the group is taken: lines 50-54 / 79-87.  With groups
\* left, process_batch reads self.delay_between_batches_s, a field the
\* class does not have (AttributeError); process_batched_items reads it
\* with getattr and sleeps delay_between_batches when it is positive
GroupDone ==
    /\ dpc = "collect"
    /\ AllCollected(batch_results, futures)
    /\ results' = ExtendResults(mode, results, batch_results)
    /\ IF GroupNum(group_idx, batch_size) < NumGroups(Len(Units), batch_size)
       THEN IF mode = "ui"
            THEN /\ dpc' = "raised"
                 /\ dexc' = "AttributeError"
                 /\ UNCHANGED <<group_idx, dsleeps>>
            ELSE /\ dpc' = "loop"
                 /\ group_idx' = group_idx + batch_size
                 /\ dsleeps' = IF ThrottleDelay > 0
                               THEN Append(dsleeps, delay_between_batches)
                               ELSE dsleeps
                 /\ UNCHANGED dexc
       ELSE /\ dpc' = "loop"
            /\ group_idx' = group_idx + batch_size
            /\ UNCHANGED <<dexc, dsleeps>>
    /\ UNCHANGED <<dispFrame, futures, finish_order, batch_results, handed>>

\* the loop is over: line 58 / 91
RunReturn ==
    /\ dpc = "loop"
    /\ group_idx >= Len(Units)
    /\ dpc' = "returned"
    /\ UNCHANGED <<dispFrame, group_idx, futures, finish_order, batch_results,
                   results, dexc, dsleeps, handed>>

Next ==
    \/ RunStart
    \/ SubmitGroup
    \/ \E p \in DOMAIN futures : WorkerStart(p)
    \/ \E p \in DOMAIN futures : WorkerRespond(p)
    \/ \E p \in DOMAIN futures : WorkerWake(p)
    \/ CollectNext
    \/ RunRaise
    \/ GroupDone
    \/ RunReturn

Spec == DispInit /\ [][Next]_vars

\* ------------------------------------------------- FailureChain.run: data
\* What FailureChain.run does with the caller's failures on its way to the
\* prompts: a failure is modelled by the size of str() of its entries
\* other than the screenshot (chars) and of its screenshot entry
\* (screenshot, 0 when it has none).
FailureKinds ==
    {[chars |-> c, screenshot |-> s] : c \in {1, MaxSize}, s \in {0, MaxSize}}

\* len(str(item))
ItemChars(f) == f.chars + f.screenshot

\* {k: v for k, v in item.items() if k != "screenshot"}: a new mapping
WithoutScreenshot(f) == [f EXCEPT !.screenshot = 0]

\* line 28: a new list of new mappings is built; the list it is built
\* from is left as it was
StripScreenshotsInPlace(fs) ==
    [caller |-> [i \in DOMAIN fs |-> WithoutScreenshot(fs[i])],
     stripped |-> [i \in DOMAIN fs |-> WithoutScreenshot(fs[i])]]
StripScreenshotsSkipped(fs) == [caller |-> fs, stripped |-> fs]
StripScreenshots(fs) ==
    [caller |-> fs,
     stripped |-> [i \in DOMAIN fs |-> WithoutScreenshot(fs[i])]]

\* FailureChain._prepare_llm_input, lines 8-22, on the list a worker was
\* called with: the failures the prompt text is made of, and the images
\* attached to the message
PrepareLlmInput(m, fs) ==
    IF m = "ui"
    THEN [text |-> <<WithoutScreenshot(fs[1])>>,
          images |-> IF fs[1].screenshot > 0 THEN <<fs[1].screenshot>>
                                             ELSE <<>>]
    ELSE [text |-> [i \in DOMAIN fs |-> WithoutScreenshot(fs[i])],
          images |-> <<>>]

ChainInit ==
    /\ failures \in SeqsUpTo(FailureKinds, MaxFailures)
    /\ chain_items = <<>>
    /\ sent = <<>>
    /\ cpc = "start"
    /\ mode \in {"ui", "api"}
    /\ max_chars = RunMaxChars
    /\ max_items_per_request \in 1..MaxPerRequestCap
    /\ items = <<>>
    /\ idx = 0
    /\ batches = <<>>
    /\ current_batch = <<>>
    /\ current_char_count = 0
    /\ dropped_items = <<>>
    /\ bpc = "idle"
    /\ batch_size = 0
    /\ group_idx = 0
    /\ futures = <<>>
    /\ finish_order = <<>>
    /\ batch_results = <<>>
    /\ results = <<>>
    /\ dpc = "idle"
    /\ dexc = "none"
    /\ dsleeps = <<>>
    /\ handed = <<>>

InitChain == ChainInit /\ ClientIdle /\ ParserIdle

chainFrame == <<clientVars, parserVars, mode, batch_size, group_idx, futures,
                finish_order, batch_results, results, dpc, dexc, dsleeps,
                handed, max_chars, max_items_per_request>>

\* run, lines 31-35: process_batch gets the failures as they are;
\* process_batched_items (lines 24-29) strips the screenshots and hands the
\* stripped list to BaseChain.process_batched_items, which splits it
\* (base_chain.py line 66)
ChainRun ==
    /\ cpc = "start"
    /\ cpc' = "dispatch"
    /\ IF mode = "ui"
       THEN /\ chain_items' = failures
            /\ UNCHANGED failures
            /\ items' = [i \in DOMAIN failures |-> ItemChars(failures[i])]
            /\ UNCHANGED <<idx, batches, current_batch, current_char_count,
                           dropped_items, bpc>>
       ELSE /\ chain_items' = StripScreenshots(failures).stripped
            /\ failures' = StripScreenshots(failures).caller
            /\ items' = [i \in DOMAIN failures |->
                            ItemChars(StripScreenshots(failures).stripped[i])]
            /\ SetBatcherState(CreateBatchedItems(
                    [i \in DOMAIN failures |->
                        ItemChars(StripScreenshots(failures).stripped[i])],
                    max_chars, max_items_per_request))
            /\ idx' = Len(failures)
            /\ bpc' = "returned"
    /\ UNCHANGED <<sent, chainFrame>>

\* a worker call on the next unit: _prepare_llm_input builds the message
\* that is sent (or raises, and the run with it)
ChainPrepare ==
    /\ cpc = "dispatch"
    /\ Len(sent) < Len(Units)
    /\ \E prepared \in BOOLEAN :
         IF prepared
         THEN /\ sent' = Append(sent,
                     PrepareLlmInput(mode,
                         [j \in DOMAIN Units[Len(sent) + 1] |->
                             chain_items[Units[Len(sent) + 1][j]]]))
              /\ UNCHANGED cpc
         ELSE /\ cpc' = "raised"
              /\ UNCHANGED sent
    /\ UNCHANGED <<failures, chain_items, batcherVars, chainFrame>>

\* the run is over: every unit was worked on and the results are returned,
\* or a call of the unit last worked on has failed and the run raises
ChainEnd ==
    /\ cpc = "dispatch"
    /\ \/ Len(sent) = Len(Units) /\ cpc' = "returned"
       \/ sent # <<>> /\ cpc' = "raised"
    /\ UNCHANGED <<failures, chain_items, sent, batcherVars, chainFrame>>

ChainNext == ChainRun \/ ChainPrepare \/ ChainEnd

SpecChain == InitChain /\ [][ChainNext]_vars

\* ======================================================== properties
AllCalls == Range(calls) \cup {call}

IsRetriable(out) ==
    out = TransportError \/ out = HttpOutcome(RateLimitStatus)

\* C1: per-item mode (process_batch): the results the dispatching thread
\* has taken from a group are, position by position, the results of the
\* group's items in input order, and when the run returns entry i of the
\* returned list is the result of input item i, whatever order the workers
\* finished in.
C1_OutputOrderIsInputOrder ==
    mode = "ui" =>
        /\ dpc = "collect" =>
              \A k \in 1..Len(batch_results) :
                 batch_results[k] = <<[item |-> group_idx + k]>>
        /\ dpc = "returned" =>
              /\ Len(results) = Len(items)
              /\ \A i \in 1..Len(items) : results[i] = <<[item |-> i]>>

\* a returned per-item run of two items whose workers finished in reverse
\* order
C1_Witness ==
    /\ mode = "ui"
    /\ dpc = "returned"
    /\ Len(items) = 2
    /\ finish_order = <<2, 1>>

\* C2: when one call of a group has failed (its response could not be
\* parsed, or it failed remotely and its text is the error marker) and a
\* sibling call of the group has succeeded, the run does not raise: it goes
\* on to return the sibling's result with the captured error.
C2_FailureIsolation ==
    \A p, q \in DOMAIN futures :
        ( /\ futures[p].state = "failed"
          /\ futures[p].exc = "ValueError"
          /\ futures[q].state = "done" )
        => dpc # "raised"

\* the run has raised on one failed call although a sibling call of the
\* same group succeeded, and the sibling's result is in no returned list
C2_SiblingDiscarded ==
    /\ dpc = "raised"
    /\ dexc = "ValueError"
    /\ results = <<>>
    /\ futures[1].state = "done"
    /\ futures[1].value = <<[item |-> 1]>>
    /\ Len(futures) = 2
    /\ futures[2].state = "failed"

\* C3: in every state of a run, in either mode, at most batch_size calls
\* are in flight.
C3_BoundedConcurrency == Cardinality(Running) <= batch_size

\* a per-batch run with more batches than batch_size has batch_size calls
\* in flight
C3_Witness ==
    /\ mode = "api"
    /\ batch_size >= 2
    /\ Len(batches) > batch_size
    /\ Cardinality(Running) = batch_size

\* C4: when _create_batched_items returns, the items in the batches plus
\* the dropped items are as many as the input items, and every input item
\* is in exactly one of them, once.
C4_BatcherCompleteness ==
    bpc = "returned" =>
        /\ SumLens(batches) + Len(dropped_items) = Len(items)
        /\ \A i \in 1..Len(items) :
              Occurrences(Flatten(batches) \o dropped_items, i) = 1

\* a returned split with several batches and a dropped item
C4_Witness ==
    /\ bpc = "returned"
    /\ Len(batches) >= 2
    /\ dropped_items # <<>>
    /\ Len(items) = MaxItems

\* C5: every batch produced holds at most max_items_per_request items and
\* the sizes of its items sum to at most max_chars.
C5_BatchBounds ==
    \A b \in Range(batches) \cup (IF bpc = "returned" THEN {} ELSE {current_batch}) :
        /\ Len(b) <= max_items_per_request
        /\ BatchChars(b, items) <= max_chars

\* a returned split with a batch that is full by count and one that was
\* closed before its count was reached (by size)
C5_Witness ==
    /\ bpc = "returned"
    /\ max_items_per_request >= 2
    /\ Len(batches) >= 3
    /\ \E j \in DOMAIN batches : Len(batches[j]) = max_items_per_request
    /\ \E j \in 1..(Len(batches) - 1) :
          /\ Len(batches[j]) < max_items_per_request
          /\ BatchChars(batches[j], items) + items[batches[j + 1][1]] > max_chars

\* C6: an item whose size alone exceeds max_chars is in no batch and is
\* exactly once in dropped_items, wherever it stands in the input.
C6_OversizedDropped ==
    \A i \in 1..idx :
        items[i] > max_chars =>
            /\ \A b \in Range(batches) \cup {current_batch} :
                  i \notin Range(b)
            /\ Occurrences(dropped_items, i) = 1

\* a returned split where an oversized item stood between two kept items
\* that share a batch
C6_Witness ==
    /\ bpc = "returned"
    /\ \E i \in 2..(Len(items) - 1) :
          /\ items[i] > max_chars
          /\ \E b \in Range(batches) : {i - 1, i + 1} \subseteq Range(b)

\* C7: with max_retries = 3, a call whose first attempt got HTTP 429 sleeps
\* once and goes on to a second attempt; when that one succeeds the call
\* returns the payload, having made two requests and slept once.
C7_RateLimitRecovery ==
    max_retries = 3 =>
        /\ \A c \in AllCalls :
              /\ c.outcomes = <<HttpOutcome(RateLimitStatus)>> =>
                    /\ c.pc \in {"sleep", "request", "inflight"}
                    /\ Len(c.sleeps) = 1
              /\ c.outcomes = <<HttpOutcome(RateLimitStatus), HttpOutcome(200)>> =>
                    /\ c.pc = "returned"
                    /\ c.text.err = "none"
                    /\ c.text.for = c.prompt
                    /\ c.requests = 2
                    /\ Len(c.sleeps) = 1
        /\ \A i \in DOMAIN calls :
              calls[i].outcomes
                    = <<HttpOutcome(RateLimitStatus), HttpOutcome(200)>> =>
                 generations[i] = calls[i].text

\* _generate has returned the payload of a call that was rate limited once
C7_Witness ==
    /\ max_retries = 3
    /\ gpc = "returned"
    /\ \E i \in DOMAIN calls :
          /\ calls[i].outcomes
                = <<HttpOutcome(RateLimitStatus), HttpOutcome(200)>>
          /\ generations[i].doc = "array_valid"

\* C8: when every one of the max_retries attempts of a call ended in a
\* transport error, no exception leaves _generate and the prompt's
\* generation is the error marker of that failure.
C8_TransportExhaustionContained ==
    /\ gpc # "escaped"
    /\ \A i \in DOMAIN calls :
          ( /\ max_retries >= 1
            /\ Len(calls[i].outcomes) = max_retries
            /\ \A k \in DOMAIN calls[i].outcomes :
                  calls[i].outcomes[k] = TransportError )
          => /\ i <= Len(generations)
             /\ generations[i].doc = "error_marker"
             /\ generations[i].err = "RequestException"

\* _generate has returned after a call made three attempts, each of which
\* ended in a transport error
C8_Witness ==
    /\ gpc = "returned"
    /\ max_retries = 3
    /\ \E i \in DOMAIN calls :
          calls[i].outcomes = <<TransportError, TransportError, TransportError>>

\* C9: an attempt that ends in an HTTP error status other than 429 is the
\* call's last: the call has failed with that error, and has made no request
\* and no sleep after it, however many attempts remained.
C9_NonRetriableFailsAtOnce ==
    \A c \in AllCalls :
        \A k \in DOMAIN c.outcomes :
            ( /\ c.outcomes[k].kind = "http"
              /\ c.outcomes[k].status \notin {200, RateLimitStatus} )
            => /\ k = Len(c.outcomes)
               /\ c.pc = "raised"
               /\ c.exc = "HTTPError"
               /\ c.requests = k
               /\ Len(c.sleeps) = k - 1

\* a call with three attempts allowed has failed on an HTTP 500 at its
\* first attempt, and _generate has since gone on to the end
C9_Witness ==
    /\ max_retries = 3
    /\ gpc = "returned"
    /\ \E i \in DOMAIN calls :
          /\ calls[i].outcomes = <<HttpOutcome(500)>>
          /\ calls[i].requests = 1
          /\ calls[i].sleeps = <<>>

\* C10: a call that has used all its max_retries attempts on retriable
\* failures (HTTP 429, transport errors) has failed with the terminal
\* ConnectionError of line 112, not with the last attempt's error.
C10_TerminalErrorOnExhaustion ==
    \A c \in AllCalls :
        ( /\ CallEnded(c)
          /\ max_retries >= 1
          /\ Len(c.outcomes) = max_retries
          /\ \A k \in DOMAIN c.outcomes : IsRetriable(c.outcomes[k]) )
        => c.exc = "ConnectionError(exhausted)"

\* a call that used up three attempts on HTTP 429 has failed with the
\* HTTPError of its last attempt
C10_LastErrorRaised ==
    /\ max_retries = 3
    /\ \E c \in AllCalls :
          /\ c.outcomes = <<HttpOutcome(RateLimitStatus),
                            HttpOutcome(RateLimitStatus),
                            HttpOutcome(RateLimitStatus)>>
          /\ c.pc = "raised"
          /\ c.exc = "HTTPError(429)"

\* the variant of one _process_prompt call: it is a natural number, and every
\* step of the call lowers it
CallFuel(c, mr) ==
    IF CallEnded(c) THEN 0
    ELSE 3 * (IF c.attempt < mr THEN mr - c.attempt ELSE 0)
         + (CASE c.pc = "request" -> 3
              [] c.pc = "inflight" -> 2
              [] OTHER -> 1)

\* at most max_retries requests, all drawn on the one attempt counter
C11_Budget ==
    \A c \in AllCalls :
        /\ c.requests <= max_retries
        /\ c.requests = Len(c.outcomes) + (IF c.pc = "inflight" THEN 1 ELSE 0)
        /\ Len(c.sleeps) = c.attempt + (IF c.pc = "sleep" THEN 1 ELSE 0)
        /\ c.requests \in {c.attempt, c.attempt + 1}
        /\ (max_retries >= 1 /\ Len(c.outcomes) = max_retries) => CallEnded(c)
        /\ CallEnded(c) => c.pc \in {"returned", "raised"}

\* a call that has not ended can take a step, and each step of it lowers
\* its variant
C11_Progress ==
    /\ (InCall /\ ~CallEnded(call)) =>
          ENABLED (ClientPost \/ ClientExhausted \/ ClientRespond \/ ClientWake)
    /\ (InCall /\ pidx' = pidx /\ call' # call) =>
          /\ CallFuel(call', max_retries) < CallFuel(call, max_retries)
          /\ CallFuel(call', max_retries) >= 0

\* C11: whatever its attempts end in (HTTP 429, transport error, other HTTP
\* error, success, in any mix), one call makes at most max_retries requests,
\* sleeps after HTTP 429 and after transport errors advancing the one attempt
\* counter, and it ends, returned or raised: a call that has not ended can
\* always take a step, every step lowers a natural-valued variant, and a
\* call whose max_retries attempts have all had their outcome has ended.
C11_RetryBudgetAndTermination == [](C11_Budget) /\ [][C11_Progress]_vars

\* a call with three attempts allowed used them on a 429, a transport error
\* and a 429, and has ended in failure after three requests
C11_Witness ==
    /\ max_retries = 3
    /\ \E c \in AllCalls :
          /\ c.outcomes = <<HttpOutcome(RateLimitStatus), TransportError,
                            HttpOutcome(RateLimitStatus)>>
          /\ c.requests = 3
          /\ c.pc = "raised"

\* the text parse_result was given, and the elements of its document
ParsedText == result[1]
ParsedElems == ParsedText.doc.elems
ParseEnded == ppc \in {"returned", "raised"} /\ result # <<>>
Decodes(t) == JsonLoads(StripFences(t)).ok
InvalidAt == {j \in DOMAIN ParsedElems : ~ParsedElems[j].ok}
RECURSIVE ValidOnes(_)
ValidOnes(es) ==
    IF es = <<>> THEN <<>>
    ELSE (IF Head(es).ok THEN <<[item |-> Head(es).item]>> ELSE <<>>)
         \o ValidOnes(Tail(es))

\* C12: when the decoded response is an array of n elements of which
\* exactly one fails schema validation, parse_result raises nothing for the
\* whole response and returns the n - 1 records of the valid elements, in
\* their order.
C12_PerElementTolerance ==
    ( /\ ParseEnded
      /\ Decodes(ParsedText)
      /\ ParsedText.doc.kind = "array"
      /\ Cardinality(InvalidAt) = 1 )
    => /\ ppc = "returned"
       /\ parsed.exc = "none"
       /\ parsed.value = ValidOnes(ParsedElems)

\* a response of five elements, the third of them invalid, has made
\* parse_result raise the ValidationError of pydantic with no result at all
C12_WholeResponseRejected ==
    /\ ppc = "raised"
    /\ result # <<>>
    /\ Decodes(ParsedText)
    /\ ParsedText.doc.kind = "array"
    /\ Len(ParsedElems) = 5
    /\ InvalidAt = {3}
    /\ parsed.exc = "ValidationError"
    /\ parsed.value = <<>>

\* C13: when the decoded response is one schema-valid object, parse_result
\* returns a list of one element, the validated record of that object.
C13_SingleObjectWrapped ==
    ( /\ ParseEnded
      /\ Decodes(ParsedText)
      /\ ParsedText.doc.kind = "object"
      /\ InvalidAt = {} )
    => /\ ppc = "returned"
       /\ parsed.value = <<[item |-> ParsedElems[1].item]>>

\* a response holding one valid object has made parse_result raise NameError
C13_NameErrorRaised ==
    /\ ppc = "raised"
    /\ result # <<>>
    /\ Decodes(ParsedText)
    /\ ParsedText.doc.kind = "object"
    /\ InvalidAt = {}
    /\ parsed.exc = "NameError"

\* C14: both when the cleaned text is not valid JSON and when the decoded
\* top-level value fails schema validation, parse_result raises the same
\* failure, a ValueError whose message carries the cleaned (fence-stripped)
\* text.
C14_TopLevelParseFailure ==
    ( /\ ParseEnded
      /\ \/ ~Decodes(ParsedText)
         \/ ParsedText.doc.kind = "object" /\ InvalidAt # {} )
    => /\ ppc = "raised"
       /\ parsed.exc = "ValueError"
       /\ parsed.msg = StripFences(ParsedText)

\* a fenced response holding one object that does not fit the schema has
\* made parse_result raise the ValidationError of pydantic, whose message
\* does not carry the cleaned text
C14_SchemaFailureEscapes ==
    /\ ppc = "raised"
    /\ result # <<>>
    /\ ParsedText.open = "json_fence"
    /\ ParsedText.close
    /\ ParsedText.doc.kind = "object"
    /\ InvalidAt = {1}
    /\ parsed.exc = "ValidationError"
    /\ parsed.msg = NoMessage

\* the groups of the run, and how many of them are over
Groups == NumGroups(Len(Units), batch_size)
GroupsOver == IF dpc = "collect" THEN group_idx \div batch_size
              ELSE Min(Groups, (group_idx + batch_size - 1) \div batch_size)
Sleeps(n) == [k \in 1..n |-> delay_between_batches]

\* C15: in a per-item run (process_batch) of two or more groups, with
\* delay_between_batches positive, the dispatching thread has slept
\* delay_between_batches once after each group that is over and has a
\* successor, and not after the last; the inter-group step raises nothing,
\* and at return it has slept once less than there are groups.
C15_ThrottlePerItem ==
    (mode = "ui" /\ dpc # "start" /\ Groups >= 2) =>
        /\ dexc # "AttributeError"
        /\ dpc \in {"loop", "collect"} => dsleeps = Sleeps(Min(GroupsOver, Groups - 1))
        /\ dpc = "returned" => dsleeps = Sleeps(Groups - 1)

\* a per-item run of three items in groups of two has ended after its first
\* group, both of whose calls succeeded, in AttributeError, without a sleep
C15_RunRaisesAfterFirstGroup ==
    /\ mode = "ui"
    /\ Len(items) = 3
    /\ batch_size = 2
    /\ dpc = "raised"
    /\ dexc = "AttributeError"
    /\ dsleeps = <<>>
    /\ Len(results) = 2
    /\ \A p \in DOMAIN futures : futures[p].state = "done"

\* C16: in a per-batch run (process_batched_items) of two or more groups
\* of batches, with delay_between_batches positive, the dispatching thread
\* has slept delay_between_batches once after each group that is over and
\* has a successor, and not after the last: at return it has slept once
\* less than there are groups.
C16_ThrottlePerBatch ==
    (mode = "api" /\ dpc # "start" /\ Groups >= 2 /\ delay_between_batches > 0) =>
        /\ dpc \in {"loop", "collect"} => dsleeps = Sleeps(Min(GroupsOver, Groups - 1))
        /\ dpc = "returned" => dsleeps = Sleeps(Groups - 1)

\* a per-batch run of two groups has returned without having slept
C16_NoSleepBetweenGroups ==
    /\ mode = "api"
    /\ dpc = "returned"
    /\ Groups = 2
    /\ Len(results) = Len(items)
    /\ dsleeps = <<>>

FutureOver(f) == f.state \in {"done", "failed", "cancelled"}

\* between two groups no call is in flight, and the calls in flight are
\* calls for elements of the one current group
C17_OneGroupInFlight ==
    /\ dpc \in {"loop", "returned", "raised"} =>
          \A p \in DOMAIN futures : FutureOver(futures[p])
    /\ \A p \in DOMAIN futures :
          futures[p].state = "running" =>
              /\ group_idx + p <= Len(Units)
              /\ futures[p].unit = Units[group_idx + p]
              /\ p <= batch_size

\* the step that submits the calls of the next group is taken when every
\* call of the group before it is over
C17_SubmitAfterJoin ==
    ( /\ futures' # futures
      /\ group_idx >= batch_size
      /\ futures' # <<>>
      /\ \A q \in DOMAIN futures' : futures'[q].state = "pending" )
    => \A p \in DOMAIN futures : FutureOver(futures[p])

\* C17: in both modes, no call of group k+1 starts before every call of
\* group k is over (done or failed): the futures of a group are submitted
\* only when every future of the group before is over, and the calls in
\* flight at any time are calls of one group.
C17_GroupBarrier == [](C17_OneGroupInFlight) /\ [][C17_SubmitAfterJoin]_vars

\* a call of the second group is in flight, the first group (of two calls)
\* being over
C17_Witness ==
    /\ dpc = "collect"
    /\ batch_size = 2
    /\ group_idx = 2
    /\ Len(results) = 2
    /\ Running # {}

\* C18: per-batch mode: the results of a run are, in order, the parsed
\* results of its batches in the order of the batches, each batch
\* contributing its results in their order (a batch of one item one entry),
\* whatever order the calls finished in.
C18_FlatteningOrder ==
    mode = "api" =>
        /\ dpc \in {"loop", "returned"} =>
              results = [k \in 1..SumLens(SubSeq(batches, 1, Min(group_idx, Len(batches)))) |->
                            [item |-> Flatten(batches)[k]]]
        /\ dpc = "returned" =>
              results = [k \in 1..Len(Flatten(batches)) |->
                            [item |-> Flatten(batches)[k]]]

\* a returned per-batch run of a batch of two items and a batch of one item
\* in one group, the second batch having finished first
C18_Witness ==
    /\ mode = "api"
    /\ dpc = "returned"
    /\ batches = <<<<1, 2>>, <<3>>>>
    /\ finish_order = <<2, 1>>
    /\ results = <<[item |-> 1], [item |-> 2], [item |-> 3]>>

\* the items a future's remote call carries, once it has posted a request
Carried(f) == IF f.state = "running" THEN Range(f.unit) ELSE {}

\* C19: in per-item mode as in per-batch mode, no remote call carries an
\* item whose size exceeds max_chars.
C19_OversizedNeverSent ==
    \A p \in DOMAIN futures :
        \A i \in Carried(futures[p]) : items[i] <= max_chars

\* a per-item run has a request in flight for an item larger than max_chars
C19_OversizedInFlight ==
    /\ mode = "ui"
    /\ \E p \in DOMAIN futures :
          /\ futures[p].state = "running"
          /\ futures[p].call.pc = "inflight"
          /\ futures[p].call.requests = 1
          /\ items[futures[p].unit[1]] > max_chars

\* line 136: the value _create_batched_items returns, and the items in it
BatchesReturned == batches
ItemsIn(bs) == UNION {Range(b) : b \in Range(bs)}

\* line 91: the value process_batched_items returns, and the items it names
RunReturned == results
ItemsNamed(rs) == {rs[k].item : k \in DOMAIN rs}

\* C20: every item _create_batched_items dropped as oversized is in the
\* value it returns, and is in the value the per-batch run returns: it is
\* named in what the caller gets back.
C20_DroppedSurfaced ==
    mode = "api" =>
        /\ bpc = "returned" => Range(dropped_items) \subseteq ItemsIn(BatchesReturned)
        /\ dpc = "returned" => Range(dropped_items) \subseteq ItemsNamed(RunReturned)

\* a per-batch run has returned the results of items 1 and 3; item 2 was
\* dropped as oversized and is in nothing the run returned
C20_DroppedUnseen ==
    /\ mode = "api"
    /\ dpc = "returned"
    /\ Len(items) = 3
    /\ dropped_items = <<2>>
    /\ RunReturned = <<[item |-> 1], [item |-> 3]>>
    /\ 2 \notin ItemsIn(BatchesReturned)

\* the indices up to n of the items that are not oversized, in input order
RECURSIVE Kept(_)
Kept(n) ==
    IF n = 0 THEN <<>>
    ELSE Kept(n - 1) \o (IF items[n] > max_chars THEN <<>> ELSE <<n>>)

\* C21: the batches of _create_batched_items, concatenated in order, are
\* the input sequence with the oversized items removed: after every
\* iteration for the items seen so far (the open batch last), and at return
\* for the whole input.
C21_OrderPreserved ==
    /\ bpc = "loop" => Flatten(batches) \o current_batch = Kept(idx)
    /\ bpc = "returned" => Flatten(batches) = Kept(Len(items))

\* a returned split of four items into two batches, the first of two items,
\* with the third item dropped
C21_Witness ==
    /\ bpc = "returned"
    /\ Len(items) = 4
    /\ dropped_items = <<3>>
    /\ batches = <<<<1, 2>>, <<4>>>>

\* the batches closed so far, with the open batch after them
BatchesSoFar ==
    batches \o (IF bpc = "loop" /\ current_batch # <<>>
                THEN <<current_batch>> ELSE <<>>)

\* no batch is empty, and a batch followed by another is full by count or
\* has no room for the first item of the next
C22_ClosedWhenNeeded ==
    /\ \A j \in DOMAIN BatchesSoFar : BatchesSoFar[j] # <<>>
    /\ \A j \in 1..(Len(BatchesSoFar) - 1) :
          \/ Len(BatchesSoFar[j]) = max_items_per_request
          \/ BatchChars(BatchesSoFar[j], items)
                 + items[BatchesSoFar[j + 1][1]] > max_chars

\* the iteration for an oversized item leaves the batches and the open
\* batch as they were
C22_DropClosesNothing ==
    (bpc = "loop" /\ idx' = idx + 1 /\ items[idx'] > max_chars)
    => /\ batches' = batches
       /\ current_batch' = current_batch
       /\ current_char_count' = current_char_count

\* C22: every batch is non-empty; a batch that is followed by another
\* holds max_items_per_request items, or its size plus the size of the
\* first item of the next batch exceeds max_chars; and the iteration that
\* drops an oversized item closes no batch.
C22_GreedyClosing == [](C22_ClosedWhenNeeded) /\ [][C22_DropClosesNothing]_vars

\* a returned split whose first batch, of one item, was closed for lack of
\* room by the third item, the oversized second item having been dropped
\* while it was open
C22_Witness ==
    /\ bpc = "returned"
    /\ max_items_per_request = 2
    /\ max_chars = 2
    /\ items = <<2, 3, 1, 1>>
    /\ dropped_items = <<2>>
    /\ batches = <<<<1>>, <<3, 4>>>>

\* every call of the group in flight has ended well, and none was cancelled
GroupAllDone == \A p \in DOMAIN futures : futures[p].state = "done"

\* C23: within one run the groups are consecutive slices of the input that
\* partition it: the futures of a group are for the units that follow the
\* groups before, no unit is handed to a worker call twice, and when the
\* run is over without any call of it having failed, every unit (item in
\* per-item mode, batch in per-batch mode) was handed to a worker call once.
C23_ExactlyOnceDispatch ==
    dpc # "start" =>
        /\ \A u \in DOMAIN handed : handed[u] = 1 /\ u \in Range(Units)
        /\ dpc \in {"collect", "unwind"} =>
              \A p \in DOMAIN futures : futures[p].unit = Units[group_idx + p]
        /\ (dpc \in {"returned", "raised"} /\ GroupAllDone) =>
              DOMAIN handed = Range(Units)

\* a per-item run of three items in groups of two is over, every call it
\* made having succeeded, and its third item was handed to no worker call
C23_LaterGroupNeverDispatched ==
    /\ mode = "ui"
    /\ batch_size = 2
    /\ Len(items) = 3
    /\ dpc = "raised"
    /\ GroupAllDone
    /\ DOMAIN handed = {<<1>>, <<2>>}

\* C24: no step of FailureChain.run, in either mode, on the way to a
\* return or to a raise, changes the list the caller passed or a failure
\* in it: the list keeps its length and every failure its entries, the
\* screenshot among them.
C24_CallerDataUnchanged == [][failures' = failures]_vars

\* a per-batch run has returned: the list handed on for batching has no
\* screenshot, and the failure of the caller still has its screenshot
C24_Witness ==
    /\ mode = "api"
    /\ cpc = "returned"
    /\ sent # <<>>
    /\ Len(failures) = 2
    /\ failures[1].screenshot > 0
    /\ chain_items[1].screenshot = 0

\* C25: in per-batch mode the size counted for a failure is the size of
\* its entries other than the screenshot, so that a failure is dropped as
\* oversized only when those alone exceed max_chars, and no message made
\* for a batch of several failures holds a screenshot, in its text or as an
\* image.
C25_AttachmentsExcluded ==
    (mode = "api" /\ cpc # "start") =>
        /\ \A i \in DOMAIN failures :
              /\ items[i] = failures[i].chars
              /\ failures[i].chars <= max_chars =>
                    /\ i \notin Range(dropped_items)
                    /\ i \in Range(Flatten(batches))
        /\ \A k \in DOMAIN sent :
              Len(sent[k].text) > 1 =>
                  /\ sent[k].images = <<>>
                  /\ \A j \in DOMAIN sent[k].text :
                        sent[k].text[j].screenshot = 0

\* a failure whose screenshot alone is larger than max_chars was kept, and
\* sent with another failure in one message
C25_Witness ==
    /\ mode = "api"
    /\ Len(failures) = 2
    /\ failures[1].chars = 1
    /\ failures[1].screenshot > max_chars
    /\ dropped_items = <<>>
    /\ Len(sent) = 1
    /\ Len(sent[1].text) = 2

\* the k-th sleep of a call follows the outcome of its k-th attempt, which
\* is attempt number k - 1
C26_BackoffSchedule_Of(c) ==
    /\ \A k \in DOMAIN c.sleeps :
          /\ c.outcomes[k] = HttpOutcome(RateLimitStatus) =>
                c.sleeps[k] = Pow(BackoffBase, k - 1)
          /\ c.outcomes[k] = TransportError => c.sleeps[k] = RetryDelay
    /\ \A k, l \in DOMAIN c.sleeps :
          ( /\ k < l
            /\ c.outcomes[k] = HttpOutcome(RateLimitStatus)
            /\ c.outcomes[l] = HttpOutcome(RateLimitStatus) )
          => c.sleeps[k] < c.sleeps[l]

\* C26: the sleep after an HTTP 429 on attempt number k (from 0) lasts
\* 30^k seconds, so the rate-limit sleeps of one call strictly grow; the
\* sleep after a transport error lasts 1 second whatever the attempt.
C26_BackoffSchedule == \A c \in AllCalls : C26_BackoffSchedule_Of(c)

\* a call slept 1 second after a 429 on attempt 0 and 30 seconds after a
\* 429 on attempt 1; another slept 1 second after a transport error on
\* attempt 1
C26_Witness ==
    /\ \E c \in AllCalls :
          /\ Len(c.outcomes) >= 2
          /\ c.outcomes[1] = HttpOutcome(RateLimitStatus)
          /\ c.outcomes[2] = HttpOutcome(RateLimitStatus)
          /\ c.sleeps = <<1, 30>>
    /\ \E c \in AllCalls :
          /\ Len(c.outcomes) >= 2
          /\ c.outcomes[2] = TransportError
          /\ Len(c.sleeps) = 2
          /\ c.sleeps[2] = 1

Sleeping == {p \in DOMAIN futures :
                futures[p].state = "running" /\ futures[p].call.pc = "sleep"}

\* C27: while a worker of a group is in a backoff or retry sleep, every
\* other worker of the group whose request is in flight can complete it,
\* every call of the group not yet started can start, and a sleeping worker
\* can wake; what waits for the sleeping worker is the dispatching thread,
\* which does not leave the group (to the next group, to the return or to
\* the raise) while a worker sleeps.
C27_SleepsAreLocal ==
    Sleeping # {} =>
        /\ dpc \in {"collect", "unwind"}
        /\ \A q \in DOMAIN futures :
              /\ (futures[q].state = "running" /\ futures[q].call.pc = "inflight")
                    => ENABLED WorkerRespond(q)
              /\ futures[q].state = "pending" => ENABLED WorkerStart(q)
              /\ q \in Sleeping => ENABLED WorkerWake(q)
        /\ ~ ENABLED GroupDone
        /\ ~ ENABLED RunRaise
        /\ ~ ENABLED RunReturn
        /\ ~ ENABLED SubmitGroup

\* the first worker of a group of two is asleep after its first attempt,
\* and the second, started since, has its request in flight
C27_Witness ==
    /\ batch_size = 2
    /\ Len(futures) = 2
    /\ 1 \in Sleeping
    /\ futures[1].call.requests = 1
    /\ futures[2].state = "running"
    /\ futures[2].call.pc = "inflight"
    /\ futures[2].call.requests = 1

\* the text of a valid document wrapped in a json fence, and the same
\* document without a fence
Fenced(d) == [open |-> "json_fence", doc |-> d, close |-> TRUE]
Unfenced(d) == [open |-> "none", doc |-> d, close |-> FALSE]
ValidDoc(d) ==
    d.kind \in {"array", "object"} /\ \A j \in DOMAIN d.elems : d.elems[j].ok
RecordsOf(d) == [j \in DOMAIN d.elems |-> [item |-> d.elems[j].item]]

\* C28: for a valid result (one object that fits the schema, or an array
\* of such objects), parse_result on its JSON wrapped in a json fence
\* returns the records of the document, and parse_result on the JSON
\* without a fence returns the same.
C28_FenceRoundTrip ==
    ( /\ ParseEnded
      /\ ValidDoc(ParsedText.doc)
      /\ ParsedText \in {Fenced(ParsedText.doc), Unfenced(ParsedText.doc)} )
    => /\ ppc = "returned"
       /\ parsed.value = RecordsOf(ParsedText.doc)
       /\ ParseResult(<<Fenced(ParsedText.doc)>>)
             = ParseResult(<<Unfenced(ParsedText.doc)>>)

\* the JSON of one valid result, wrapped in a json fence, has made
\* parse_result raise NameError: nothing is returned
C28_FencedObjectRaises ==
    /\ ppc = "raised"
    /\ result = <<Fenced(ObjectDoc([item |-> 1, ok |-> TRUE]))>>
    /\ parsed.exc = "NameError"
    /\ parsed.value = <<>>

\* C29: _generate makes one generation per prompt, in prompt order: after
\* every call that is over, the generations made so far are one for each
\* prompt done, the i-th for the i-th prompt, the text of the call when it
\* returned and the "[ERROR: ...]" marker of its exception when it raised,
\* and the loop goes on to the prompts after a failed one; at return there
\* are as many generations as prompts.
C29_OneGenerationPerPrompt ==
    /\ gpc # "escaped"
    /\ Len(generations) = pidx
    /\ Len(calls) = pidx
    /\ \A i \in DOMAIN calls :
          /\ calls[i].prompt = prompts[i]
          /\ generations[i].for = prompts[i]
          /\ calls[i].pc = "returned" => generations[i] = calls[i].text
          /\ calls[i].pc = "raised" =>
                generations[i] = ErrorText(prompts[i], calls[i].exc)
    /\ gpc = "returned" => Len(generations) = Len(prompts)

\* _generate has returned two generations for two prompts: the first call
\* failed and gave the error marker, the second returned its text
C29_Witness ==
    /\ gpc = "returned"
    /\ Len(prompts) = 2
    /\ calls[1].pc = "raised"
    /\ generations[1].doc = "error_marker"
    /\ calls[2].pc = "returned"
    /\ generations[2].doc = "array_valid"
    /\ generations[2].for = 2

\* C30: within one call every sleep is followed by another request: the
\* call has made as many requests as it has slept, plus one once it is past
\* the sleep; a retriable failure on attempt max_retries - 1 ends the call
\* without a sleep, and a call sleeps at most max_retries - 1 times.
C30_NoSleepAfterLastAttempt ==
    \A c \in AllCalls :
        /\ max_retries >= 1 => Len(c.sleeps) <= max_retries - 1
        /\ max_retries = 0 => c.sleeps = <<>>
        /\ c.pc = "sleep" => c.attempt < max_retries - 1
        /\ CallEnded(c) /\ c.requests >= 1 => c.requests = Len(c.sleeps) + 1
        /\ ( /\ Len(c.outcomes) = max_retries
             /\ max_retries >= 1
             /\ IsRetriable(c.outcomes[max_retries]) )
           => /\ c.pc = "raised"
              /\ Len(c.sleeps) = max_retries - 1

\* a call with three attempts allowed got a transport error on each: it
\* slept twice and ended on the third without a sleep
C30_Witness ==
    /\ max_retries = 3
    /\ \E c \in AllCalls :
          /\ c.outcomes = <<TransportError, TransportError, TransportError>>
          /\ c.pc = "raised"
          /\ c.sleeps = <<RetryDelay, RetryDelay>>
          /\ c.requests = 3

====
